---- MODULE Spec2Model ----
(***************************************************************************)
(* Model of SmartTestPrioritizer                                           *)
(* (testing-suite/ai-testing/smart_test_prioritizer.py).                   *)
(*                                                                         *)
(* Numbers.  The program computes with floats; the model computes with     *)
(* exact fixed-point integers.  A signal (a sub-score) is an integer in    *)
(* units of 1/SignalUnit, a score an integer in units of 1/One.  The       *)
(* inputs are drawn from sets on which every division of the program is    *)
(* exact in these units (Representable), so a model value is the real      *)
(* number the program's expression denotes.                                *)
(*                                                                         *)
(* Strings.  A Python string is a sequence of one-character strings, so    *)
(* that `in` (substring) and lower() are computed, not assumed.            *)
(*                                                                         *)
(* Time.  datetime.now() is the variable now, counted in whole days; a     *)
(* parsable last_failure is the day it names, so (now - last).days is      *)
(* now - day.                                                              *)
(***************************************************************************)
EXTENDS Integers, Sequences, FiniteSets, TLC

VARIABLES
    config,                 \* self.config (NoConfig before __init__)
    historical_performance, \* self.historical_performance: name -> window
    model_trained,          \* self.model_trained
    ml_model,               \* self.ml_model (NoModel when None) with its scaler
    now,                    \* datetime.now(), in days
    request,                \* the caller's arguments to prioritize_tests
    ret,                    \* the last call of prioritize_tests and its result
    prev,                   \* the call before it
    recorded,               \* per name, the observations appended so far, in order
    pc,                     \* per thread, its position in update_performance_history
    frame                   \* per thread, the locals of its call

vars == <<config, historical_performance, model_trained, ml_model, now, request,
          ret, prev, recorded, pc, frame>>

---------------------------------------------------------------------------
(* Fixed-point units *)

SignalUnit == 8400
One == 10000 * SignalUnit

Min(a, b) == IF a <= b THEN a ELSE b
Max(a, b) == IF a >= b THEN a ELSE b
Abs(a) == IF a < 0 THEN 0 - a ELSE a

\* Python's true division, for a quotient the units represent exactly.
Div(a, b) == IF b < 0 THEN (0 - a) \div (0 - b) ELSE a \div b
Divides(b, a) == b # 0 /\ Abs(a) % Abs(b) = 0

RECURSIVE SumSeq(_)
SumSeq(s) == IF s = << >> THEN 0 ELSE Head(s) + SumSeq(Tail(s))

RECURSIVE SelectSeqBy(_, _)
SelectSeqBy(s, keep) ==
    IF s = << >> THEN << >>
    ELSE IF keep[1] THEN <<Head(s)>> \o SelectSeqBy(Tail(s), Tail(keep))
         ELSE SelectSeqBy(Tail(s), Tail(keep))

---------------------------------------------------------------------------
(* Strings *)

UpperCase == <<"A","B","C","D","E","F","G","H","I","J","K","L","M",
               "N","O","P","Q","R","S","T","U","V","W","X","Y","Z">>
LowerCase == <<"a","b","c","d","e","f","g","h","i","j","k","l","m",
               "n","o","p","q","r","s","t","u","v","w","x","y","z">>

LowerChar(c) ==
    IF \E i \in 1..26 : UpperCase[i] = c
    THEN LowerCase[CHOOSE i \in 1..26 : UpperCase[i] = c]
    ELSE c

\* str.lower()
Lower(s) == [i \in 1..Len(s) |-> LowerChar(s[i])]

\* sub in s, for strings
Contains(sub, s) ==
    \E i \in 1..(Len(s) - Len(sub) + 1) : SubSeq(s, i, i + Len(sub) - 1) = sub

\* x in list
InList(x, list) == \E i \in 1..Len(list) : list[i] = x

---------------------------------------------------------------------------
(* Enums and configuration *)

BusinessImpact == {"CRITICAL", "HIGH", "MEDIUM", "LOW"}
RiskLevel == {"CRITICAL", "HIGH", "MEDIUM", "LOW"}
ExecutionFrequency == {"Every commit", "Every build", "Daily", "Weekly"}

\* weight_config with the failure and business weights exchanged
weight_config_exchanged ==
    [failure_history |-> 25, business_impact |-> 30, code_coverage |-> 20,
     execution_time |-> 10, code_changes |-> 15]

\* Config.weight_config, in hundredths
weight_config ==
    [failure_history |-> 30, business_impact |-> 25, code_coverage |-> 20,
     execution_time |-> 10, code_changes |-> 15]

\* Config.business_impact_scores, in tenths
business_impact_scores ==
    [CRITICAL |-> 10, HIGH |-> 8, MEDIUM |-> 5, LOW |-> 2]

\* Config.test_type_weights, in tenths
test_type_weights ==
    [SECURITY |-> 10, API |-> 9, DATABASE |-> 8, INTEGRATION |-> 7,
     UNIT |-> 5, UI |-> 6]

\* risk_thresholds with its first two rows out of order
risk_thresholds_unordered ==
    << <<6, "HIGH">>, <<8, "CRITICAL">>, <<4, "MEDIUM">>, <<0, "LOW">> >>

\* Config.risk_thresholds, thresholds in tenths
risk_thresholds ==
    << <<8, "CRITICAL">>, <<6, "HIGH">>, <<4, "MEDIUM">>, <<0, "LOW">> >>

\* Config()
Config ==
    [weight_config |-> weight_config,
     business_impact_scores |-> business_impact_scores,
     test_type_weights |-> test_type_weights,
     risk_thresholds |-> risk_thresholds]

\* config: Config = None
NoConfig == [kind |-> "none"]

\* A score compared with a literal given in tenths.
Tenths(k) == k * (One \div 10)

---------------------------------------------------------------------------
(* Values *)

\* TestCase.last_failure: None, a string fromisoformat rejects, or a date
NoFailure == [kind |-> "none", day |-> 0]
BadDate == [kind |-> "unparsable", day |-> 0]
OnDay(d) == [kind |-> "date", day |-> d]

\* recent_changes: None or a list of strings
NoChanges == [given |-> FALSE, files |-> << >>]
Changes(files) == [given |-> TRUE, files |-> files]

\* recent_changes or []
OrEmpty(recent_changes) ==
    IF recent_changes.given THEN recent_changes.files ELSE << >>

\* self.ml_model: None, or an object whose predict is one of these kinds
NoModel == [kind |-> "none", val |-> 0]
ConstModel(v) == [kind |-> "const", val |-> v]     \* predicts v
RaisingModel == [kind |-> "raise", val |-> 0]      \* transform/predict raises
HistoryModel == [kind |-> "history", val |-> 0]    \* predicts the historical_avg feature

---------------------------------------------------------------------------
(* Signal extractors *)

\* (datetime.now() - last_failure_date).days
DaysSince(last_failure, clock) == clock - last_failure.day

\* 1.0 / (1.0 + days_since_failure / 7.0); ZeroDivisionError at -7 days
RecencyRaises(days) == 7 + days = 0
Recency(days) == Div(7 * SignalUnit, 7 + days)

\* _calculate_failure_score with the recency default 0.0 instead of 0.5
_calculate_failure_score_no_default(test_case, clock) ==
    IF test_case.failure_count = 0
    THEN SignalUnit \div 10
    ELSE LET failure_frequency ==
                 Min(Div(test_case.failure_count * SignalUnit, 10), SignalUnit)
             days == DaysSince(test_case.last_failure, clock)
             recency_score ==
                 IF test_case.last_failure.kind = "date" /\ ~RecencyRaises(days)
                 THEN Recency(days)
                 ELSE 0
         IN  Div(failure_frequency + recency_score, 2)

\* _calculate_failure_score without the early return for failure_count == 0
_calculate_failure_score_no_early_return(test_case, clock) ==
    LET failure_frequency ==
            Min(Div(test_case.failure_count * SignalUnit, 10), SignalUnit)
        days == DaysSince(test_case.last_failure, clock)
        recency_score ==
            IF test_case.last_failure.kind = "date" /\ ~RecencyRaises(days)
            THEN Recency(days)
            ELSE SignalUnit \div 2
    IN  Div(failure_frequency + recency_score, 2)

_calculate_failure_score(test_case, clock) ==
    IF test_case.failure_count = 0
    THEN SignalUnit \div 10
    ELSE LET failure_frequency ==
                 Min(Div(test_case.failure_count * SignalUnit, 10), SignalUnit)
             days == DaysSince(test_case.last_failure, clock)
             recency_score ==
                 IF test_case.last_failure.kind = "date" /\ ~RecencyRaises(days)
                 THEN Recency(days)
                 ELSE SignalUnit \div 2
         IN  Div(failure_frequency + recency_score, 2)

critical_patterns ==
    << <<"a","u","t","h">>,
       <<"s","e","c","u","r","i","t","y">>,
       <<"p","a","y","m","e","n","t">>,
       <<"d","a","t","a","b","a","s","e">> >>

\* _calculate_change_impact_score without the +0.8 of a direct file change
_calculate_change_impact_score_no_direct(test_case, recent_changes) ==
    IF recent_changes = << >>
    THEN SignalUnit \div 10
    ELSE LET deps == test_case.dependencies
             hitDeps == {i \in 1..Len(deps) :
                          \E j \in 1..Len(recent_changes) :
                              Contains(deps[i], recent_changes[j])}
             hitChanges == {j \in 1..Len(recent_changes) :
                             \E k \in 1..Len(critical_patterns) :
                                 Contains(critical_patterns[k],
                                          Lower(recent_changes[j]))}
             impact_score ==
                 3 * Cardinality(hitDeps) + 2 * Cardinality(hitChanges)
         IN  Min(impact_score, 10) * (SignalUnit \div 10)

\* +0.3 for each dependency found in some change; +0.2 for each change
\* holding a critical pattern.  In tenths until the return.
_calculate_change_impact_score(test_case, recent_changes) ==
    IF recent_changes = << >>
    THEN SignalUnit \div 10
    ELSE LET direct == IF InList(test_case.file_path, recent_changes)
                       THEN 8 ELSE 0
             deps == test_case.dependencies
             hitDeps == {i \in 1..Len(deps) :
                          \E j \in 1..Len(recent_changes) :
                              Contains(deps[i], recent_changes[j])}
             hitChanges == {j \in 1..Len(recent_changes) :
                             \E k \in 1..Len(critical_patterns) :
                                 Contains(critical_patterns[k],
                                          Lower(recent_changes[j]))}
             impact_score ==
                 direct + 3 * Cardinality(hitDeps) + 2 * Cardinality(hitChanges)
         IN  Min(impact_score, 10) * (SignalUnit \div 10)

\* dict.get(key, 0.5) on the two tables of Config, in tenths
BusinessScore(cfg, impact) ==
    IF impact \in DOMAIN cfg.business_impact_scores
    THEN cfg.business_impact_scores[impact] ELSE 5
TypeWeight(cfg, test_type) ==
    IF test_type \in DOMAIN cfg.test_type_weights
    THEN cfg.test_type_weights[test_type] ELSE 5

CoverageScore(test_case) == Div(test_case.code_coverage * SignalUnit, 100)

\* the share of the minute scale the test takes, instead of the share it leaves
TimeScore_rising(test_case) ==
    Div(test_case.execution_time * SignalUnit, 60 + test_case.execution_time)

\* 1.0 / (1.0 + execution_time / 60.0); ZeroDivisionError at -60 seconds
TimeScoreRaises(test_case) == 60 + test_case.execution_time = 0
TimeScore(test_case) == Div(60 * SignalUnit, 60 + test_case.execution_time)

\* The weighted sum times the type weight, in units of 1/One, before min.
WeightedSum(cfg, test_case, recent_changes, clock) ==
    ( _calculate_failure_score(test_case, clock) * cfg.weight_config.failure_history
    + BusinessScore(cfg, test_case.business_impact) * (SignalUnit \div 10)
          * cfg.weight_config.business_impact
    + CoverageScore(test_case) * cfg.weight_config.code_coverage
    + TimeScore(test_case) * cfg.weight_config.execution_time
    + _calculate_change_impact_score(test_case, OrEmpty(recent_changes))
          * cfg.weight_config.code_changes
    ) * TypeWeight(cfg, test_case.test_type) * 10

_calculate_traditional_score(cfg, test_case, recent_changes, clock) ==
    Min(WeightedSum(cfg, test_case, recent_changes, clock), One)

\* Every division above is exact on this test case at this time.
Representable(test_case, clock) ==
    /\ \/ TimeScoreRaises(test_case)
       \/ Divides(60 + test_case.execution_time, 60 * SignalUnit)
    /\ Divides(100, test_case.code_coverage * SignalUnit)
    /\ \/ test_case.failure_count = 0
       \/ LET days == DaysSince(test_case.last_failure, clock)
              dated == test_case.last_failure.kind = "date" /\ ~RecencyRaises(days)
              recency == IF dated THEN Recency(days) ELSE SignalUnit \div 2
              frequency == Min(Div(test_case.failure_count * SignalUnit, 10),
                               SignalUnit)
          IN  /\ dated => Divides(7 + days, 7 * SignalUnit)
              /\ Divides(2, frequency + recency)

---------------------------------------------------------------------------
(* Model adapter and ensemble *)

\* self.historical_performance.get(name, [0.5]), then np.mean
HistoryWindow(history, name) ==
    IF name \in DOMAIN history THEN history[name] ELSE <<One \div 2>>
Mean(window) == Div(SumSeq(window), Len(window))

business_impact_map == [CRITICAL |-> 4, HIGH |-> 3, MEDIUM |-> 2, LOW |-> 1]
test_types == <<"SECURITY", "API", "DATABASE", "INTEGRATION", "UNIT", "UI">>

\* The 13 features, in the order the trained model expects.
_extract_ml_features(test_case, recent_changes, history, clock) ==
    <<test_case.failure_count, test_case.execution_time, test_case.code_coverage,
      IF test_case.business_impact \in DOMAIN business_impact_map
      THEN business_impact_map[test_case.business_impact] ELSE 2>>
    \o [i \in 1..Len(test_types) |->
            IF test_case.test_type = test_types[i] THEN 1 ELSE 0]
    \o <<IF test_case.last_failure.kind = "date"
         THEN DaysSince(test_case.last_failure, clock) ELSE 999,
         _calculate_change_impact_score(test_case, OrEmpty(recent_changes)),
         Mean(HistoryWindow(history, test_case.name))>>

\* scaler.transform followed by ml_model.predict: raised, or the prediction
Predict(model, features) ==
    CASE model.kind = "const" -> [raised |-> FALSE, prediction |-> model.val]
      [] model.kind = "history" -> [raised |-> FALSE, prediction |-> features[13]]
      [] OTHER -> [raised |-> TRUE, prediction |-> 0]

_calculate_ml_score(test_case, recent_changes, model, history, clock) ==
    LET features == _extract_ml_features(test_case, recent_changes, history, clock)
        outcome == Predict(model, features)
    IN  IF outcome.raised
        THEN One \div 2
        ELSE Max(0, Min(One, outcome.prediction))

\* a handler that catches nothing
Caught_nothing(outcome) == FALSE

\* except Exception: pass -- the handler takes whatever the try block raised
Caught(outcome) == outcome.raised

\* _calculate_ml_score raises to its caller
MlScoreRaises(test_case, recent_changes, model, history, clock) ==
    LET features == _extract_ml_features(test_case, recent_changes, history, clock)
        outcome == Predict(model, features)
    IN  outcome.raised /\ ~Caught(outcome)

\* if self.model_trained and self.ml_model
ModelActive(trained, model) == trained /\ model.kind # "none"

\* calculate_priority_score raises: line 122, or the model branch
Raises(test_case, recent_changes, trained, model, history, clock) ==
    \/ TimeScoreRaises(test_case)
    \/ /\ ModelActive(trained, model)
       /\ MlScoreRaises(test_case, recent_changes, model, history, clock)

\* calculate_priority_score with the two ensemble weights exchanged
calculate_priority_score_exchanged(cfg, test_case, recent_changes, trained, model, history, clock) ==
    LET traditional_score ==
            _calculate_traditional_score(cfg, test_case, recent_changes, clock)
    IN  IF ModelActive(trained, model)
        THEN LET ml_score == _calculate_ml_score(test_case, recent_changes,
                                                 model, history, clock)
             IN  Div(traditional_score * 7 + ml_score * 3, 10)
        ELSE traditional_score

calculate_priority_score(cfg, test_case, recent_changes, trained, model, history, clock) ==
    LET traditional_score ==
            _calculate_traditional_score(cfg, test_case, recent_changes, clock)
    IN  IF ModelActive(trained, model)
        THEN LET ml_score == _calculate_ml_score(test_case, recent_changes,
                                                 model, history, clock)
             IN  Div(traditional_score * 3 + ml_score * 7, 10)
        ELSE traditional_score

---------------------------------------------------------------------------
(* Classification, explanation, frequency *)

RECURSIVE FirstMatch(_, _)
FirstMatch(score, table) ==
    IF table = << >> THEN "LOW"
    ELSE IF score >= Tenths(Head(table)[1]) THEN Head(table)[2]
         ELSE FirstMatch(score, Tail(table))

_determine_risk_level(cfg, score) == FirstMatch(score, cfg.risk_thresholds)

Line(text, num, str) == [text |-> text, num |-> num, str |-> str]

\* _generate_reasoning with `if score >= 0.6` in place of the elif
_generate_reasoning_no_elif(test_case, score, recent_changes) ==
    LET lines ==
          << Line("High failure rate: {} recent failures",
                  test_case.failure_count, ""),
             Line("High business impact: {}", 0, test_case.business_impact),
             Line("High code coverage: {}%", test_case.code_coverage, ""),
             Line("Test file recently modified", 0, ""),
             Line("Critical test type: {}", 0, test_case.test_type),
             Line("Fast execution time", 0, ""),
             Line("URGENT: Run immediately", 0, ""),
             Line("HIGH PRIORITY: Run in next cycle", 0, "") >>
        keep ==
          << test_case.failure_count > 5,
             test_case.business_impact \in {"CRITICAL", "HIGH"},
             test_case.code_coverage > 80,
             recent_changes.given /\ recent_changes.files # << >>
                 /\ InList(test_case.file_path, recent_changes.files),
             test_case.test_type \in {"SECURITY", "API"},
             test_case.execution_time < 30,
             score >= Tenths(8),
             score >= Tenths(6) >>
    IN  SelectSeqBy(lines, keep)

_generate_reasoning(test_case, score, recent_changes) ==
    LET lines ==
          << Line("High failure rate: {} recent failures",
                  test_case.failure_count, ""),
             Line("High business impact: {}", 0, test_case.business_impact),
             Line("High code coverage: {}%", test_case.code_coverage, ""),
             Line("Test file recently modified", 0, ""),
             Line("Critical test type: {}", 0, test_case.test_type),
             Line("Fast execution time", 0, ""),
             Line("URGENT: Run immediately", 0, ""),
             Line("HIGH PRIORITY: Run in next cycle", 0, "") >>
        keep ==
          << test_case.failure_count > 5,
             test_case.business_impact \in {"CRITICAL", "HIGH"},
             test_case.code_coverage > 80,
             recent_changes.given /\ recent_changes.files # << >>
                 /\ InList(test_case.file_path, recent_changes.files),
             test_case.test_type \in {"SECURITY", "API"},
             test_case.execution_time < 30,
             score >= Tenths(8),
             ~(score >= Tenths(8)) /\ score >= Tenths(6) >>
    IN  SelectSeqBy(lines, keep)

\* _recommend_frequency without the branch for UNIT tests
_recommend_frequency_no_override(score, test_type) ==
    IF score >= Tenths(8) THEN "Every commit"
    ELSE IF score >= Tenths(6) THEN "Every build"
    ELSE IF score >= Tenths(4) THEN "Daily"
    ELSE "Weekly"

_recommend_frequency(score, test_type) ==
    IF score >= Tenths(8) THEN "Every commit"
    ELSE IF score >= Tenths(6) THEN "Every build"
    ELSE IF score >= Tenths(4) THEN "Daily"
    ELSE IF test_type = "UNIT" THEN "Every build"
    ELSE "Weekly"

---------------------------------------------------------------------------
(* Ordering and budget *)

NoBudget == [given |-> FALSE, seconds |-> 0]
Budget(n) == [given |-> TRUE, seconds |-> n]

\* if time_budget:
Truthy(time_budget) == time_budget.given /\ time_budget.seconds # 0

\* n1/d1 < n2/d2 for d1, d2 > 0, without forming the cross products
RatioLess(n1, d1, n2, d2) ==
    IF n1 \div d1 # n2 \div d2
    THEN n1 \div d1 < n2 \div d2
    ELSE (n1 % d1) * d2 < (n2 % d2) * d1

\* key(a) < key(b) for the two sort keys of the program
KeyLess(key, a, b) ==
    IF key = "priority_score"
    THEN a.priority_score < b.priority_score
    ELSE RatioLess(a.priority_score, Max(a.test_case.execution_time, 1),
                   b.priority_score, Max(b.test_case.execution_time, 1))

\* list.sort(key=..., reverse=True): descending and stable
RECURSIVE InsertDesc(_, _, _)
InsertDesc(key, x, sorted) ==
    IF sorted = << >> THEN <<x>>
    ELSE IF KeyLess(key, Head(sorted), x) THEN <<x>> \o sorted
         ELSE <<Head(sorted)>> \o InsertDesc(key, x, Tail(sorted))

RECURSIVE SortDesc(_, _)
SortDesc(key, s) ==
    IF s = << >> THEN << >>
    ELSE InsertDesc(key, s[Len(s)], SortDesc(key, SubSeq(s, 1, Len(s) - 1)))

\* the loop of _optimize_for_time_budget with a break at the first test
\* that does not fit
RECURSIVE Greedy_until_full(_, _, _, _)
Greedy_until_full(remaining, selected, total_time, time_budget) ==
    IF remaining = << >> THEN selected
    ELSE LET priority == Head(remaining)
             t == priority.test_case.execution_time
         IN  IF total_time + t <= time_budget
             THEN Greedy_until_full(Tail(remaining), Append(selected, priority),
                                    total_time + t, time_budget)
             ELSE selected

RECURSIVE Greedy(_, _, _, _)
Greedy(remaining, selected, total_time, time_budget) ==
    IF remaining = << >> THEN selected
    ELSE LET priority == Head(remaining)
             t == priority.test_case.execution_time
         IN  IF total_time + t <= time_budget
             THEN Greedy(Tail(remaining), Append(selected, priority),
                         total_time + t, time_budget)
             ELSE Greedy(Tail(remaining), selected, total_time, time_budget)

\* _optimize_for_time_budget taking the tests in the order given
_optimize_for_time_budget_by_score(priorities, time_budget) ==
    Greedy(priorities, << >>, 0, time_budget)

_optimize_for_time_budget(priorities, time_budget) ==
    Greedy(SortDesc("ratio", priorities), << >>, 0, time_budget)

Score(cfg, test_case, recent_changes, trained, model, history, clock) ==
    LET score == calculate_priority_score(cfg, test_case, recent_changes,
                                          trained, model, history, clock)
    IN  [test_case |-> test_case,
         priority_score |-> score,
         risk_level |-> _determine_risk_level(cfg, score),
         reasoning |-> _generate_reasoning(test_case, score, recent_changes),
         recommended_frequency |-> _recommend_frequency(score, test_case.test_type)]

prioritize_tests(cfg, test_cases, recent_changes, time_budget, trained, model, history, clock) ==
    LET priorities ==
            [i \in 1..Len(test_cases) |->
                Score(cfg, test_cases[i], recent_changes, trained, model, history, clock)]
        sorted == SortDesc("priority_score", priorities)
    IN  IF Truthy(time_budget)
        THEN _optimize_for_time_budget(sorted, time_budget.seconds)
        ELSE sorted

---------------------------------------------------------------------------
(* Execution plan *)

\* by_risk[level]: the entries of a level, in the order of the list
ByRisk(priorities, level) ==
    LET at_level(p) == p.risk_level = level
    IN  SelectSeq(priorities, at_level)

TestNamesOf(priorities) ==
    [i \in 1..Len(priorities) |-> priorities[i].test_case.name]
TotalTime(priorities) ==
    SumSeq([i \in 1..Len(priorities) |-> priorities[i].test_case.execution_time])

\* by_risk.get('CRITICAL', []) split at 60 seconds
FastCritical(priorities) ==
    LET fast(p) == p.test_case.execution_time < 60
    IN  SelectSeq(ByRisk(priorities, "CRITICAL"), fast)
SlowCritical(priorities) ==
    LET slow(p) == p.test_case.execution_time >= 60
    IN  SelectSeq(ByRisk(priorities, "CRITICAL"), slow)

\* sum(fast) / min(len(fast_critical), 4): ZeroDivisionError when there
\* are critical tests and none of them is fast
SmartPhasesRaise(priorities) ==
    /\ ByRisk(priorities, "CRITICAL") # << >>
    /\ Min(Len(FastCritical(priorities)), 4) = 0

\* estimated_time in units of 1/720 minute: the divisors 1..4 and 60
\* divide 720, so the value is exact for whole seconds.
_generate_smart_phases(priorities) ==
    IF ByRisk(priorities, "CRITICAL") = << >>
    THEN << >>
    ELSE [phase_1_critical |->
             [parallel_batch_1 |-> TestNamesOf(FastCritical(priorities)),
              sequential_batch |-> TestNamesOf(SlowCritical(priorities)),
              estimated_time |->
                  Max(Div(12 * TotalTime(FastCritical(priorities)),
                          Min(Len(FastCritical(priorities)), 4)),
                      12 * TotalTime(SlowCritical(priorities))),
              parallelization_factor |->
                  Min(Len(FastCritical(priorities)), 4)]]

\* The plan: summary (estimated time in seconds) and execution_phases.
\* The insights, sequence, recommendations and predictions are computed
\* from the same list, read no engine state but model_trained and
\* feature_importance, and divide only by lengths of non-empty lists.
generate_execution_plan(priorities, trained) ==
    [summary |-> [total_tests |-> Len(priorities),
                  estimated_time |-> TotalTime(priorities),
                  ml_model_active |-> trained],
     execution_phases |-> _generate_smart_phases(priorities)]

---------------------------------------------------------------------------
(* Performance history *)

\* the window limit of update_performance_history
HistoryLimit == 50

\* defaultdict(list): a key exists once it has been indexed
WindowOf(history, name) ==
    IF name \in DOMAIN history THEN history[name] ELSE << >>

SetWindow(history, name, window) ==
    [n \in DOMAIN history \cup {name} |->
        IF n = name THEN window ELSE history[n]]

\* window[:50], the oldest entries kept
FirstEntries(window, n) ==
    IF Len(window) <= n THEN window ELSE SubSeq(window, 1, n)

\* window[-50:]
LastEntries(window, n) ==
    IF Len(window) <= n THEN window
    ELSE SubSeq(window, Len(window) - n + 1, Len(window))

\* update_performance_history appending to every window of the store
update_performance_history_every_window(history, test_name, actual_priority) ==
    [n \in DOMAIN history \cup {test_name} |->
        LastEntries(Append(WindowOf(history, n), actual_priority), HistoryLimit)]

\* The whole method, run by one thread alone.
update_performance_history(history, test_name, actual_priority) ==
    LET appended == Append(WindowOf(history, test_name), actual_priority)
    IN  SetWindow(history, test_name,
                  IF Len(appended) > HistoryLimit
                  THEN LastEntries(appended, HistoryLimit)
                  ELSE appended)

---------------------------------------------------------------------------
(* Engine state *)

Threads == {"w1", "w2"}

NoCall == [op |-> "none"]
NoRequest == [test_cases |-> << >>, recent_changes |-> NoChanges,
              time_budget |-> NoBudget]
IdleFrame == [test_name |-> "", actual_priority |-> 0, slice |-> << >>]

\* The fields __init__ sets whatever its argument, and the bookkeeping.
Blank ==
    /\ historical_performance = << >>
    /\ model_trained = FALSE
    /\ ml_model = NoModel
    /\ now = 0
    /\ ret = NoCall
    /\ prev = NoCall
    /\ recorded = << >>
    /\ pc = [t \in Threads |-> "idle"]
    /\ frame = [t \in Threads |-> IdleFrame]

\* SmartTestPrioritizer(): the state after __init__ with no argument
Fresh ==
    /\ config = Config
    /\ Blank

\* SmartTestPrioritizer(cfg): self.config = config or Config(), unchecked
__init__(cfg) ==
    /\ config' = IF cfg = NoConfig THEN Config ELSE cfg
    /\ historical_performance' = << >>
    /\ model_trained' = FALSE
    /\ ml_model' = NoModel
    /\ ret' = [op |-> "__init__", raised |-> FALSE]
    /\ UNCHANGED <<now, request, prev, recorded, pc, frame>>

Environment ==
    [history |-> historical_performance, trained |-> model_trained,
     model |-> ml_model, now |-> now, recorded |-> recorded]

\* The sub-scores computed for one test during a call.
Signals(cfg, test_case, recent_changes, clock) ==
    [failure_score |-> _calculate_failure_score(test_case, clock),
     coverage_score |-> CoverageScore(test_case),
     time_score |-> TimeScore(test_case),
     change_score |->
         _calculate_change_impact_score(test_case, OrEmpty(recent_changes)),
     traditional_score |->
         _calculate_traditional_score(cfg, test_case, recent_changes, clock)]

\* The arithmetic of a call on this batch is exact now.
Exact(test_cases) ==
    \A i \in 1..Len(test_cases) :
        /\ Representable(test_cases[i], now)
        /\ LET window == HistoryWindow(historical_performance, test_cases[i].name)
           IN  Divides(Len(window), SumSeq(window))

\* An exception left the call: nothing is returned.
Raised(op) ==
    [op |-> op, raised |-> TRUE, env |-> Environment,
     signals |-> << >>, priorities |-> << >>]

Call(test_cases, recent_changes, time_budget) ==
    IF \E i \in 1..Len(test_cases) :
           Raises(test_cases[i], recent_changes, model_trained, ml_model,
                  historical_performance, now)
    THEN Raised("prioritize_tests")
    ELSE [op |-> "prioritize_tests",
          raised |-> FALSE,
          env |-> Environment,
          signals |-> [i \in 1..Len(test_cases) |->
                          Signals(config, test_cases[i], recent_changes, now)],
          priorities |-> prioritize_tests(config, test_cases, recent_changes,
                                          time_budget, model_trained, ml_model,
                                          historical_performance, now)]

\* PrioritizeTests that also stores each score it computes in the history
PrioritizeTests_recording ==
    /\ Exact(request.test_cases)
    /\ ret' = Call(request.test_cases, request.recent_changes, request.time_budget)
    /\ prev' = ret
    /\ historical_performance' =
           [n \in DOMAIN historical_performance
                    \cup {request.test_cases[i].name : i \in 1..Len(request.test_cases)} |->
               IF \E i \in 1..Len(request.test_cases) : request.test_cases[i].name = n
               THEN LastEntries(
                        Append(WindowOf(historical_performance, n),
                               calculate_priority_score(
                                   config, request.test_cases[
                                       CHOOSE i \in 1..Len(request.test_cases) :
                                           request.test_cases[i].name = n],
                                   request.recent_changes, model_trained, ml_model,
                                   historical_performance, now)),
                        HistoryLimit)
               ELSE historical_performance[n]]
    /\ UNCHANGED <<config, model_trained, ml_model, now, request, recorded, pc, frame>>

\* prioritize_tests(test_cases, recent_changes, time_budget) with the
\* caller's arguments
PrioritizeTests ==
    /\ Exact(request.test_cases)
    /\ ret' = Call(request.test_cases, request.recent_changes, request.time_budget)
    /\ prev' = ret
    /\ UNCHANGED <<config, historical_performance, model_trained, ml_model, now,
                   request, recorded, pc, frame>>

UpdatePerformanceHistory(test_name, actual_priority) ==
    /\ historical_performance' =
           update_performance_history(historical_performance,
                                      test_name, actual_priority)
    /\ recorded' = SetWindow(recorded, test_name,
                             Append(WindowOf(recorded, test_name), actual_priority))
    /\ UNCHANGED <<config, model_trained, ml_model, now, request, ret, prev, pc, frame>>

\* load_ml_model: the model file is missing; the model is read and the
\* scaler file is missing; both are read.
LoadMlModel(outcome, model) ==
    /\ \/ /\ outcome = "no model file"
          /\ UNCHANGED <<ml_model, model_trained>>
       \/ /\ outcome = "no scaler file"
          /\ ml_model' = model
          /\ UNCHANGED model_trained
       \/ /\ outcome = "loaded"
          /\ ml_model' = model
          /\ model_trained' = TRUE
    /\ UNCHANGED <<config, historical_performance, now, request, ret, prev,
                   recorded, pc, frame>>

\* sum(len(perf) for perf in self.historical_performance.values())
RECURSIVE DataPoints(_)
DataPoints(history) ==
    IF DOMAIN history = {} THEN 0
    ELSE LET n == CHOOSE n \in DOMAIN history : TRUE
         IN  Len(history[n])
                 + DataPoints([m \in DOMAIN history \ {n} |-> history[m]])

\* get_ml_metrics(): the fields read from the engine
GetMlMetrics ==
    /\ ret' = [op |-> "get_ml_metrics", raised |-> FALSE,
               metrics |->
                   [model_trained |-> model_trained,
                    historical_data_points |-> DataPoints(historical_performance)]]
    /\ UNCHANGED <<config, historical_performance, model_trained, ml_model, now,
                   request, prev, recorded, pc, frame>>

\* A day passes.
Tick ==
    /\ now' = now + 1
    /\ UNCHANGED <<config, historical_performance, model_trained, ml_model, request,
                   ret, prev, recorded, pc, frame>>

---------------------------------------------------------------------------
(* Scoring one test: the inputs of calculate_priority_score *)

test_auth_py == <<"t","e","s","t","_","a","u","t","h",".","p","y">>
test_ui_py == <<"t","e","s","t","_","u","i",".","p","y">>
Payment_py == <<"P","a","y","m","e","n","t",".","p","y">>
readme == <<"R","E","A","D","M","E">>

ScoreTestCases ==
    [name : {"t1"},
     file_path : {test_ui_py},
     test_type : {"SECURITY", "UNIT", "SMOKE"},
     execution_time : {0, 45, 360},
     last_failure : {NoFailure, BadDate, OnDay(8), OnDay(7), OnDay(1),
                     OnDay(0 - 63), OnDay(0 - 68)},
     failure_count : {0, 1, 2, 12},
     code_coverage : {0, 85, 100},
     business_impact : {"CRITICAL", "MEDIUM", "LOW"},
     dependencies : {<< >>}]

ScoreChanges == {NoChanges, Changes(<<test_ui_py, Payment_py>>), Changes(<<readme>>)}

ScoreModels == {ConstModel(0 - One \div 2), ConstModel(3 * (One \div 2)),
                RaisingModel, HistoryModel}

InitScore ==
    /\ Fresh
    /\ request \in [test_cases : {<<tc>> : tc \in ScoreTestCases},
                    recent_changes : ScoreChanges,
                    time_budget : {NoBudget}]

\* One call of prioritize_tests, before or after a model is loaded.
NextScore ==
    \/ /\ ret = NoCall
       /\ PrioritizeTests
    \/ /\ ret = NoCall
       /\ \E model \in ScoreModels : LoadMlModel("loaded", model)

SpecScore == InitScore /\ [][NextScore]_vars

---------------------------------------------------------------------------
(* Scoring one test whose fields may be out of range *)

MalformedTestCases ==
    [name : {"t1"},
     file_path : {test_ui_py},
     test_type : {"SECURITY", "UNIT"},
     execution_time : {0 - 120, 0 - 60, 45},
     last_failure : {NoFailure},
     failure_count : {0 - 2, 2},
     code_coverage : {0 - 50, 85, 150},
     business_impact : {"CRITICAL", "LOW"},
     dependencies : {<< >>}]

InitMalformed ==
    /\ Fresh
    /\ request \in [test_cases : {<<tc>> : tc \in MalformedTestCases},
                    recent_changes : {NoChanges},
                    time_budget : {NoBudget}]

SpecMalformed == InitMalformed /\ [][NextScore]_vars

---------------------------------------------------------------------------
(* Prioritizing a batch: the inputs of prioritize_tests *)

MaxBatch == 2      \* tests in a batch

TestNames == {"t1", "t2", "t3"}

\* The sample tests of main(), with times and counts the units represent.
SecurityTest(name) ==
    [name |-> name, file_path |-> test_auth_py, test_type |-> "SECURITY",
     execution_time |-> 45, last_failure |-> NoFailure, failure_count |-> 2,
     code_coverage |-> 85, business_impact |-> "CRITICAL", dependencies |-> << >>]
UnitTest(name) ==
    [name |-> name, file_path |-> test_ui_py, test_type |-> "UNIT",
     execution_time |-> 20, last_failure |-> NoFailure, failure_count |-> 0,
     code_coverage |-> 50, business_impact |-> "MEDIUM", dependencies |-> << >>]
ApiTest(name) ==
    [name |-> name, file_path |-> test_ui_py, test_type |-> "API",
     execution_time |-> 60, last_failure |-> OnDay(0), failure_count |-> 6,
     code_coverage |-> 100, business_impact |-> "HIGH", dependencies |-> << >>]

\* Lists of at most n of these tests, no name twice.
Batches(tests, n) ==
    {b \in UNION {[1..k -> tests] : k \in 0..n} :
        \A i, j \in 1..Len(b) : b[i].name = b[j].name => i = j}

BatchTestCases ==
    {SecurityTest(n) : n \in TestNames} \cup {UnitTest(n) : n \in TestNames}
        \cup {ApiTest(n) : n \in TestNames}

InitBatch ==
    /\ Fresh
    /\ request \in [test_cases : Batches(BatchTestCases, MaxBatch),
                    recent_changes : {NoChanges, Changes(<<test_auth_py>>)},
                    time_budget : {NoBudget, Budget(0), Budget(10), Budget(50),
                                   Budget(110)}]

NextBatch ==
    \/ PrioritizeTests
    \/ /\ ret = NoCall
       /\ \E model \in {HistoryModel, RaisingModel} : LoadMlModel("loaded", model)

SpecBatch == InitBatch /\ [][NextBatch]_vars

---------------------------------------------------------------------------
(* Scoring one test against a changeset: dependencies and changed files *)

MaxChanges == 2    \* entries in a changeset

ui == <<"u","i">>
auth == <<"a","u","t","h">>

ChangedFiles == {test_ui_py, test_auth_py, Payment_py, readme}

\* The UNIT sample of main() under either path, with no dependency, one,
\* two, or the same one twice.
ChangeTestCases ==
    {[UnitTest("t1") EXCEPT !.file_path = path, !.dependencies = deps] :
        path \in {test_ui_py, test_auth_py},
        deps \in {<< >>, <<ui>>, <<ui, auth>>, <<ui, ui>>}}

\* None, the empty list, and every list of at most MaxChanges files.
ChangeSets ==
    {NoChanges} \cup
        {Changes(files) :
            files \in UNION {[1..k -> ChangedFiles] : k \in 0..MaxChanges}}

InitChanges ==
    /\ Fresh
    /\ request \in [test_cases : {<<tc>> : tc \in ChangeTestCases},
                    recent_changes : ChangeSets,
                    time_budget : {NoBudget}]

SpecChanges == InitChanges /\ [][NextScore]_vars

---------------------------------------------------------------------------
(* Budget selection and planning over a scored list *)

MaxPriorities == 3     \* entries in a scored list

PlanNames == <<"t1", "t2", "t3", "t4", "t5">>

\* (score in tenths, execution_time): the three of the worked example, a
\* fast and a slow CRITICAL entry, a HIGH and two LOW ones
ScoredPairs ==
    {<<9, 100>>, <<8, 30>>, <<6, 60>>, <<5, 10>>, <<4, 5>>, <<2, 0>>, <<0, 5>>}

\* A TestPriority as prioritize_tests builds it for a score.
Scored(name, pair) ==
    [test_case |-> [UnitTest(name) EXCEPT !.execution_time = pair[2]],
     priority_score |-> Tenths(pair[1]),
     risk_level |-> _determine_risk_level(Config, Tenths(pair[1])),
     reasoning |-> << >>,
     recommended_frequency |-> _recommend_frequency(Tenths(pair[1]), "UNIT")]

\* Lists as prioritize_tests hands them on: descending score, the i-th
\* entry named PlanNames[i].
ScoredLists ==
    {[i \in 1..Len(pairs) |-> Scored(PlanNames[i], pairs[i])] :
        pairs \in {ps \in UNION {[1..k -> ScoredPairs] : k \in 0..MaxPriorities} :
                      \A i \in 1..(Len(ps) - 1) : ps[i][1] >= ps[i + 1][1]}}

InitPlan ==
    /\ Fresh
    /\ request \in [priorities : ScoredLists, time_budget : {5, 15, 110}]

\* self._optimize_for_time_budget(priorities, time_budget)
OptimizeForTimeBudget ==
    /\ ret' = [op |-> "_optimize_for_time_budget",
               raised |-> FALSE,
               priorities |-> request.priorities,
               time_budget |-> request.time_budget,
               selected |-> _optimize_for_time_budget(request.priorities,
                                                      request.time_budget)]
    /\ UNCHANGED <<config, historical_performance, model_trained, ml_model, now,
                   request, prev, recorded, pc, frame>>

\* generate_execution_plan(priorities)
GenerateExecutionPlan(priorities) ==
    /\ ret' = IF SmartPhasesRaise(priorities)
              THEN [op |-> "generate_execution_plan", raised |-> TRUE,
                    priorities |-> priorities]
              ELSE [op |-> "generate_execution_plan", raised |-> FALSE,
                    priorities |-> priorities,
                    plan |-> generate_execution_plan(priorities, model_trained)]
    /\ UNCHANGED <<config, historical_performance, model_trained, ml_model, now,
                   request, prev, recorded, pc, frame>>

\* The plan is made from the whole list or from the budgeted selection.
NextPlan ==
    \/ OptimizeForTimeBudget
    \/ GenerateExecutionPlan(request.priorities)
    \/ /\ ret.op = "_optimize_for_time_budget"
       /\ GenerateExecutionPlan(ret.selected)

SpecPlan == InitPlan /\ [][NextPlan]_vars

---------------------------------------------------------------------------
(* The engine over time: calls, observations, model loads, days *)

MaxClock == 1      \* days that pass
MaxWindow == 1     \* observations recorded between calls

LoadOutcomes == {"no model file", "no scaler file", "loaded"}

EngineTestCases == {SecurityTest("t1"), ApiTest("t1"), ApiTest("t2")}

Init ==
    /\ Fresh
    /\ request \in [test_cases : Batches(EngineTestCases, MaxBatch),
                    recent_changes : {NoChanges, Changes(<<test_auth_py>>)},
                    time_budget : {NoBudget, Budget(60)}]

Next ==
    \/ PrioritizeTests
    \/ /\ Len(WindowOf(historical_performance, "t1")) < MaxWindow
       /\ UpdatePerformanceHistory("t1", 0)
    \/ \E outcome \in LoadOutcomes : LoadMlModel(outcome, HistoryModel)
    \/ /\ now < MaxClock
       /\ Tick

Spec == Init /\ [][Next]_vars

---------------------------------------------------------------------------
(* Every operation that reads the history store, and the one that writes it *)

InitFrame ==
    /\ Fresh
    /\ request \in [test_cases : {<<SecurityTest("t1"), ApiTest("t2")>>,
                                   <<ApiTest("t1")>>},
                    recent_changes : {NoChanges},
                    time_budget : {NoBudget, Budget(60)}]

NextFrame ==
    \/ PrioritizeTests
    \/ \E name \in {"t1", "t2"} :
           /\ Len(WindowOf(historical_performance, name)) < MaxWindow
           /\ UpdatePerformanceHistory(name, 0)
    \/ \E outcome \in LoadOutcomes : LoadMlModel(outcome, HistoryModel)
    \/ /\ ret.op = "prioritize_tests" /\ ~ret.raised
       /\ GenerateExecutionPlan(ret.priorities)
    \/ /\ ret.op # "get_ml_metrics"
       /\ GetMlMetrics

SpecFrame == InitFrame /\ [][NextFrame]_vars

---------------------------------------------------------------------------
(* A caller's worker threads scoring the tests of one batch, each test by
   the loop body of prioritize_tests (lines 360-373) *)

NoResults == [i \in {} |-> 0]

\* what the workers have computed so far: per worker, per place of the batch
Results(t) == IF ret.op = "workers" THEN ret.results[t] ELSE NoResults

\* The loop body for test i, run by worker t; the engine is left as it is.
Evaluate(t, i, history) ==
    /\ ret' = [op |-> "workers",
               raised |-> FALSE,
               env |-> IF ret.op = "workers" THEN ret.env ELSE Environment,
               results |->
                   [w \in Threads |->
                       IF w = t
                       THEN [k \in DOMAIN Results(t) \cup {i} |->
                                IF k = i
                                THEN [day |-> now,
                                      priority |->
                                          Score(config, request.test_cases[i],
                                                request.recent_changes,
                                                model_trained, ml_model,
                                                history, now)]
                                ELSE Results(t)[k]]
                       ELSE Results(w)]]
    /\ UNCHANGED <<config, model_trained, ml_model, now, request, prev,
                   recorded, pc, frame>>

\* WorkerScore that also appends the score it computed to the test's window
WorkerScore_recording(t, i) ==
    /\ i \notin DOMAIN Results(t)
    /\ Exact(<<request.test_cases[i]>>)
    /\ ~Raises(request.test_cases[i], request.recent_changes, model_trained,
               ml_model, historical_performance, now)
    /\ Evaluate(t, i, historical_performance)
    /\ historical_performance' =
           update_performance_history(
               historical_performance, request.test_cases[i].name,
               calculate_priority_score(config, request.test_cases[i],
                                        request.recent_changes, model_trained,
                                        ml_model, historical_performance, now))

WorkerScore(t, i) ==
    /\ i \notin DOMAIN Results(t)
    /\ Exact(<<request.test_cases[i]>>)
    /\ ~Raises(request.test_cases[i], request.recent_changes, model_trained,
               ml_model, historical_performance, now)
    /\ Evaluate(t, i, historical_performance)
    /\ UNCHANGED historical_performance

InitWorkers ==
    /\ Fresh
    /\ request \in [test_cases : Batches(EngineTestCases, MaxBatch),
                    recent_changes : {NoChanges, Changes(<<test_auth_py>>)},
                    time_budget : {NoBudget}]

\* The model and the history are set before the workers start; days pass
\* at any time.
NextWorkers ==
    \/ \E t \in Threads : \E i \in 1..Len(request.test_cases) : WorkerScore(t, i)
    \/ /\ ret = NoCall
       /\ LoadMlModel("loaded", HistoryModel)
    \/ /\ ret = NoCall
       /\ Len(WindowOf(historical_performance, "t1")) < MaxWindow
       /\ UpdatePerformanceHistory("t1", 0)
    \/ /\ now < MaxClock
       /\ Tick

SpecWorkers == InitWorkers /\ [][NextWorkers]_vars

---------------------------------------------------------------------------
(* Construction with a configuration *)

\* The argument of SmartTestPrioritizer(...): None, Config(), and Config
\* objects whose weight_config was set by the caller (sums 1.5, 0.8, 1.0).
ConfigArgs ==
    {NoConfig, Config,
     [Config EXCEPT !.weight_config.failure_history = 80],
     [Config EXCEPT !.weight_config.failure_history = 10],
     [Config EXCEPT !.weight_config.failure_history = 20,
                    !.weight_config.business_impact = 35]}

ConfigTestCases ==
    {tc \in ScoreTestCases : tc.last_failure \in {NoFailure, OnDay(1)}}

\* Before construction there is no engine: config is NoConfig.
InitConfig ==
    /\ config = NoConfig
    /\ Blank
    /\ request \in [config : ConfigArgs,
                    test_cases : {<<tc>> : tc \in ConfigTestCases},
                    recent_changes : {NoChanges},
                    time_budget : {NoBudget}]

NextConfig ==
    \/ /\ config = NoConfig
       /\ __init__(request.config)
    \/ /\ ret.op = "__init__" /\ ~ret.raised
       /\ PrioritizeTests

SpecConfig == InitConfig /\ [][NextConfig]_vars

---------------------------------------------------------------------------
(* The history store, one caller *)

MaxObservations == 52   \* observations recorded per name

\* The k-th observation recorded for a name has the value k.
InitHistory ==
    /\ Fresh
    /\ request = NoRequest

NextHistory ==
    \E name \in {"t1", "t2"} :
        /\ Len(WindowOf(recorded, name)) < MaxObservations
        /\ UpdatePerformanceHistory(name, Len(WindowOf(recorded, name)) + 1)

SpecHistory == InitHistory /\ [][NextHistory]_vars

---------------------------------------------------------------------------
(* The history store, two callers: update_performance_history line by line *)

MaxCalls == 53     \* calls of update_performance_history, all threads

\* line 705: self.historical_performance[test_name].append(actual_priority)
ThreadAppend(t, test_name) ==
    /\ pc[t] = "idle"
    /\ Len(WindowOf(recorded, test_name)) < MaxCalls
    /\ LET actual_priority == Len(WindowOf(recorded, test_name)) + 1
       IN  /\ frame' = [frame EXCEPT ![t] =
                           [test_name |-> test_name,
                            actual_priority |-> actual_priority,
                            slice |-> << >>]]
           /\ historical_performance' =
                  SetWindow(historical_performance, test_name,
                            Append(WindowOf(historical_performance, test_name),
                                   actual_priority))
           /\ recorded' = SetWindow(recorded, test_name,
                                    Append(WindowOf(recorded, test_name),
                                           actual_priority))
    /\ pc' = [pc EXCEPT ![t] = "check"]
    /\ UNCHANGED <<config, model_trained, ml_model, now, request, ret, prev>>

\* line 707: if len(self.historical_performance[test_name]) > 50
ThreadCheck(t) ==
    /\ pc[t] = "check"
    /\ IF Len(WindowOf(historical_performance, frame[t].test_name)) > HistoryLimit
       THEN /\ pc' = [pc EXCEPT ![t] = "slice"]
            /\ UNCHANGED frame
       ELSE /\ pc' = [pc EXCEPT ![t] = "idle"]
            /\ frame' = [frame EXCEPT ![t] = IdleFrame]
    /\ UNCHANGED <<config, historical_performance, model_trained, ml_model, now,
                   request, ret, prev, recorded>>

\* line 708, right-hand side: self.historical_performance[test_name][-50:]
ThreadSlice(t) ==
    /\ pc[t] = "slice"
    /\ frame' = [frame EXCEPT ![t].slice =
                    LastEntries(WindowOf(historical_performance, frame[t].test_name),
                                HistoryLimit)]
    /\ pc' = [pc EXCEPT ![t] = "store"]
    /\ UNCHANGED <<config, historical_performance, model_trained, ml_model, now,
                   request, ret, prev, recorded>>

\* line 708, assignment: self.historical_performance[test_name] = ...
ThreadStore(t) ==
    /\ pc[t] = "store"
    /\ historical_performance' =
           SetWindow(historical_performance, frame[t].test_name, frame[t].slice)
    /\ pc' = [pc EXCEPT ![t] = "idle"]
    /\ frame' = [frame EXCEPT ![t] = IdleFrame]
    /\ UNCHANGED <<config, model_trained, ml_model, now, request, ret, prev, recorded>>

NextThreads ==
    \E t \in Threads :
        \/ ThreadAppend(t, "t1")
        \/ ThreadCheck(t)
        \/ ThreadSlice(t)
        \/ ThreadStore(t)

SpecThreads == InitHistory /\ [][NextThreads]_vars

---------------------------------------------------------------------------
(* Properties of scoring one test (SpecScore) *)

Called == ret.op = "prioritize_tests" /\ ~ret.raised

InRange(test_case) ==
    /\ test_case.execution_time >= 0
    /\ test_case.failure_count >= 0
    /\ test_case.code_coverage \in 0..100

\* The inference of the active model fails on the call in ret: it raises,
\* or predicts outside [0,1].
InferenceFails(test_case) ==
    /\ ModelActive(ret.env.trained, ret.env.model)
    /\ LET outcome ==
               Predict(ret.env.model,
                       _extract_ml_features(test_case, request.recent_changes,
                                            ret.env.history, ret.env.now))
       IN  outcome.raised \/ outcome.prediction \notin 0..One

\* C1: for every test case with in-range fields and every changeset, the
\* final score lies in [0,1], with or without an active model.
C1_FinalScoreInUnitInterval ==
    Called =>
        \A i \in 1..Len(ret.priorities) :
            InRange(ret.priorities[i].test_case)
                => ret.priorities[i].priority_score \in 0..One

\* C3: when the inference raises or predicts outside [0,1], the final score
\* of the test equals its heuristic-only score.
C3_FailedInferenceGivesHeuristicScore ==
    (Called /\ Len(request.test_cases) = 1 /\ InferenceFails(request.test_cases[1]))
        => ret.priorities[1].priority_score = ret.signals[1].traditional_score

\* C7 as stated: with last_failure and every other field fixed, the failure
\* signal of a test with a positive failure_count is at least the signal of
\* the same test with failure_count = 0.
C7_PositiveCountNeverLowersFailureSignal ==
    Called =>
        \A i \in 1..Len(request.test_cases) :
            request.test_cases[i].failure_count > 0
                => ret.signals[i].failure_score >=
                       _calculate_failure_score(
                           [request.test_cases[i] EXCEPT !.failure_count = 0],
                           ret.env.now)

\* The last failure is absent or unparsable, or it is at most 7 days in
\* the future and, for a single failure, at most 63 days old.
RecentEnough(test_case, clock) ==
    \/ test_case.last_failure.kind # "date"
    \/ /\ DaysSince(test_case.last_failure, clock) >= 0 - 7
       /\ \/ test_case.failure_count >= 2
          \/ DaysSince(test_case.last_failure, clock) <= 63

\* C7 amended: the same, for a last_failure that is absent or unparsable, or
\* is at most 7 days in the future and, when failure_count = 1, at most 63
\* days old.
C7_PositiveCountWithRecentFailure ==
    Called =>
        \A i \in 1..Len(request.test_cases) :
            (/\ request.test_cases[i].failure_count > 0
             /\ RecentEnough(request.test_cases[i], ret.env.now))
                => ret.signals[i].failure_score >=
                       _calculate_failure_score(
                           [request.test_cases[i] EXCEPT !.failure_count = 0],
                           ret.env.now)

\* A single failure exactly 63 days ago: the signal meets the constant 0.1.
C7_Witness ==
    /\ Called
    /\ request.test_cases[1].failure_count = 1
    /\ request.test_cases[1].last_failure = OnDay(0 - 63)
    /\ ret.env.now = 0
    /\ ret.signals[1].failure_score = SignalUnit \div 10

\* The example of the specification: SECURITY, 45 s, 2 failures, no
\* last_failure, coverage 85, CRITICAL; no changeset, no model.
ExampleCall ==
    /\ Called
    /\ Len(request.test_cases) = 1
    /\ request.test_cases[1].test_type = "SECURITY"
    /\ request.test_cases[1].execution_time = 45
    /\ request.test_cases[1].failure_count = 2
    /\ request.test_cases[1].last_failure = NoFailure
    /\ request.test_cases[1].code_coverage = 85
    /\ request.test_cases[1].business_impact = "CRITICAL"
    /\ request.recent_changes = NoChanges
    /\ ~ModelActive(ret.env.trained, ret.env.model)

\* |value - thousandths/1000| <= tolerance/10000, value in units of 1/unit
About(value, unit, thousandths, tolerance) ==
    Abs(value - thousandths * (unit \div 1000)) <= tolerance * (unit \div 10000)

\* C9 as stated: the example gets failure signal about 0.51, heuristic score
\* about 0.70 and risk level HIGH.
C9_ExampleAsStated ==
    ExampleCall =>
        /\ About(ret.signals[1].failure_score, SignalUnit, 510, 50)
        /\ About(ret.signals[1].traditional_score, One, 700, 50)
        /\ ret.priorities[1].risk_level = "HIGH"

\* C9 amended: the example gets failure signal 0.35, heuristic score about
\* 0.597 and risk level MEDIUM.
C9_ExampleAsComputed ==
    ExampleCall =>
        /\ ret.signals[1].failure_score = 35 * (SignalUnit \div 100)
        /\ About(ret.signals[1].traditional_score, One, 597, 5)
        /\ ret.priorities[1].priority_score = ret.signals[1].traditional_score
        /\ ret.priorities[1].risk_level = "MEDIUM"

C9_Witness == ExampleCall /\ ret.priorities[1].risk_level = "MEDIUM"

\* C10: every score gets exactly one risk level, by the thresholds taken
\* top-down: >= 0.8 CRITICAL, else >= 0.6 HIGH, else >= 0.4 MEDIUM, else LOW.
C10_RiskLevelByThresholds ==
    Called =>
        \A i \in 1..Len(ret.priorities) :
            LET score == ret.priorities[i].priority_score
                level == ret.priorities[i].risk_level
            IN  /\ level \in RiskLevel
                /\ (level = "CRITICAL") <=> score >= Tenths(8)
                /\ (level = "HIGH") <=> (score >= Tenths(6) /\ score < Tenths(8))
                /\ (level = "MEDIUM") <=> (score >= Tenths(4) /\ score < Tenths(6))
                /\ (level = "LOW") <=> score < Tenths(4)

\* A score in the HIGH band, classified HIGH.
C10_Witness ==
    /\ Called
    /\ ret.priorities[1].priority_score >= Tenths(6)
    /\ ret.priorities[1].priority_score < Tenths(8)
    /\ ret.priorities[1].risk_level = "HIGH"

---------------------------------------------------------------------------
(* Properties of prioritizing a batch (SpecBatch) *)

SelectedTime ==
    SumSeq([i \in 1..Len(ret.priorities) |->
               ret.priorities[i].test_case.execution_time])

\* C2: for every batch and every non-negative time budget, the execution
\* times of the returned tests sum to at most the budget.
C2_SelectionWithinBudget ==
    (Called /\ request.time_budget.given /\ request.time_budget.seconds >= 0)
        => SelectedTime <= request.time_budget.seconds

NamesAscending == <<"t1", "t2", "t3">>
NameRank(name) == CHOOSE k \in 1..Len(NamesAscending) : NamesAscending[k] = name

\* C4: without a budget the returned list is in descending score order,
\* equal scores in ascending name order, whatever the order of the batch.
C4_OrderedByScoreThenName ==
    (Called /\ ~request.time_budget.given) =>
        \A i, j \in 1..Len(ret.priorities) :
            i < j =>
                \/ ret.priorities[i].priority_score > ret.priorities[j].priority_score
                \/ /\ ret.priorities[i].priority_score = ret.priorities[j].priority_score
                   /\ NameRank(ret.priorities[i].test_case.name)
                          < NameRank(ret.priorities[j].test_case.name)

---------------------------------------------------------------------------
(* Properties of the history store (SpecHistory, SpecThreads) *)

\* window is the newest entries of log, in the order of log
NewestOf(window, log) ==
    /\ Len(window) <= Len(log)
    /\ \A i \in 1..Len(window) :
           window[i] = log[Len(log) - Len(window) + i]

AllIdle == \A t \in Threads : pc[t] = "idle"

\* C5: when threads update the same name concurrently, once they are done
\* every recorded observation is in the window unless it was evicted as one
\* of the oldest, and the window has at most 50 entries.
C5_ConcurrentUpdatesKeepWindow ==
    AllIdle =>
        \A name \in DOMAIN historical_performance :
            /\ Len(historical_performance[name]) <= HistoryLimit
            /\ NewestOf(historical_performance[name], recorded[name])

\* C6: after any sequence of updates each window has at most 50 entries and
\* is the most recent min(n, 50) observations of its name, in arrival order.
C6_WindowIsMostRecentFifty ==
    /\ DOMAIN historical_performance = DOMAIN recorded
    /\ \A name \in DOMAIN historical_performance :
           /\ Len(historical_performance[name]) <= 50
           /\ Len(historical_performance[name]) =
                  IF Len(recorded[name]) < 50 THEN Len(recorded[name]) ELSE 50
           /\ NewestOf(historical_performance[name], recorded[name])

\* 52 observations of t1: the two oldest are gone, the window starts at the third.
C6_Witness ==
    /\ "t1" \in DOMAIN recorded
    /\ Len(recorded["t1"]) = 52
    /\ Len(historical_performance["t1"]) = 50
    /\ historical_performance["t1"][1] = 3
    /\ historical_performance["t1"][50] = 52

---------------------------------------------------------------------------
(* Properties of the engine over time (Spec) *)

TwoCalls ==
    /\ ret.op = "prioritize_tests" /\ ~ret.raised
    /\ prev.op = "prioritize_tests" /\ ~prev.raised

NothingRecordedOrLoaded ==
    /\ ret.env.recorded = prev.env.recorded
    /\ ret.env.model = prev.env.model
    /\ ret.env.trained = prev.env.trained

\* C8 as stated: two calls on the same batch, changeset and budget, with no
\* update_performance_history call and no model change between them, return
\* identical lists.
C8_SameCallSameList ==
    (TwoCalls /\ NothingRecordedOrLoaded) => ret.priorities = prev.priorities

\* C8 amended: the same, when both calls are made on the same day, so that
\* the whole days since each last_failure are the same.
C8_SameCallSameDaySameList ==
    (TwoCalls /\ NothingRecordedOrLoaded /\ ret.env.now = prev.env.now)
        => ret.priorities = prev.priorities

\* Two calls on one day with an active model, a recorded observation and a
\* dated failure in the batch, after a day has passed.
C8_Witness ==
    /\ TwoCalls /\ NothingRecordedOrLoaded
    /\ ret.env.now = prev.env.now
    /\ ret.env.now > 0
    /\ ModelActive(ret.env.trained, ret.env.model)
    /\ "t1" \in DOMAIN ret.env.history
    /\ Len(ret.priorities) = 2
    /\ \E i \in 1..2 : ret.priorities[i].test_case.last_failure.kind = "date"
    /\ ret.priorities = prev.priorities

---------------------------------------------------------------------------
(* Properties of budget selection and planning (SpecPlan) *)

Optimized == ret.op = "_optimize_for_time_budget"

\* entry i of the list is considered before entry j: a greater score per
\* second of max(execution_time, 1), or an equal one and an earlier place
ConsideredBefore(list, i, j) ==
    \/ KeyLess("ratio", list[j], list[i])
    \/ /\ ~KeyLess("ratio", list[i], list[j])
       /\ i < j

\* the places of the list whose entries were selected
SelectedPlaces(list, selected) ==
    {i \in 1..Len(list) : \E k \in 1..Len(selected) : selected[k] = list[i]}

\* the execution_time accepted before place i is considered
AcceptedBefore(list, places, i) ==
    SumSeq([j \in 1..Len(list) |->
               IF j \in places /\ ConsideredBefore(list, j, i)
               THEN list[j].test_case.execution_time ELSE 0])

ExampleList ==
    <<Scored("t1", <<9, 100>>), Scored("t2", <<5, 10>>), Scored("t3", <<4, 5>>)>>

\* C11: the optimizer takes the tests by descending score / max(time, 1)
\* and accepts a test exactly when the accepted time so far plus its own is
\* within the budget; for (0.9, 100), (0.5, 10), (0.4, 5) and budget 15 it
\* selects exactly (0.5, 10) and (0.4, 5).
C11_GreedyByRatioWithinBudget ==
    Optimized =>
        LET list == ret.priorities
            places == SelectedPlaces(list, ret.selected)
        IN  /\ Len(ret.selected) = Cardinality(places)
            /\ \A k \in 1..(Len(ret.selected) - 1) :
                   \E i, j \in places :
                       /\ ret.selected[k] = list[i]
                       /\ ret.selected[k + 1] = list[j]
                       /\ ConsideredBefore(list, i, j)
            /\ \A i \in 1..Len(list) :
                   i \in places <=>
                       AcceptedBefore(list, places, i)
                           + list[i].test_case.execution_time <= ret.time_budget
            /\ (list = ExampleList /\ ret.time_budget = 15)
                   => {ret.selected[k] : k \in 1..Len(ret.selected)}
                          = {ExampleList[2], ExampleList[3]}

\* The worked example, selected.
C11_Witness ==
    /\ Optimized
    /\ ret.priorities = ExampleList
    /\ ret.time_budget = 15
    /\ ret.selected = <<ExampleList[3], ExampleList[2]>>

Planned == ret.op = "generate_execution_plan"

\* the test names a phase holds
PhaseTests(phase) ==
    {phase.parallel_batch_1[k] : k \in 1..Len(phase.parallel_batch_1)}
        \cup {phase.sequential_batch[k] : k \in 1..Len(phase.sequential_batch)}

\* C14: the plan puts every scored test of its input in exactly one phase.
C14_EveryTestInOnePhase ==
    (Planned /\ ~ret.raised) =>
        \A i \in 1..Len(ret.priorities) :
            Cardinality({phase \in DOMAIN ret.plan.execution_phases :
                            ret.priorities[i].test_case.name
                                \in PhaseTests(ret.plan.execution_phases[phase])})
                = 1

\* C15: generate_execution_plan returns a plan without raising for every
\* list of scored tests.
C15_PlanNeverRaises ==
    Planned => ~ret.raised

\* C26: in the critical phase the fast batch (execution_time < 60) and the
\* slow batch (execution_time >= 60) partition the CRITICAL tests,
\* parallelization_factor is min(number of fast tests, 4) and the estimated
\* time is max(sum of fast times / parallelization_factor, sum of slow
\* times).  The estimate of the plan is kept in 1/720 of its unit.
C26_CriticalPhase ==
    (Planned /\ \E i \in 1..Len(ret.priorities) :
                    ret.priorities[i].risk_level = "CRITICAL")
        => /\ ~ret.raised
           /\ "phase_1_critical" \in DOMAIN ret.plan.execution_phases
           /\ LET phase == ret.plan.execution_phases.phase_1_critical
                  critical == {i \in 1..Len(ret.priorities) :
                                  ret.priorities[i].risk_level = "CRITICAL"}
                  fast == {i \in critical :
                              ret.priorities[i].test_case.execution_time < 60}
                  slow == critical \ fast
                  Names(places) == {ret.priorities[i].test_case.name : i \in places}
                  Time(places) ==
                      SumSeq([i \in 1..Len(ret.priorities) |->
                                 IF i \in places
                                 THEN ret.priorities[i].test_case.execution_time
                                 ELSE 0])
              IN  /\ {phase.parallel_batch_1[k] :
                         k \in 1..Len(phase.parallel_batch_1)} = Names(fast)
                  /\ {phase.sequential_batch[k] :
                         k \in 1..Len(phase.sequential_batch)} = Names(slow)
                  /\ Len(phase.parallel_batch_1) + Len(phase.sequential_batch)
                         = Cardinality(critical)
                  /\ phase.parallelization_factor = Min(Cardinality(fast), 4)
                  /\ phase.estimated_time =
                         Max(Div(720 * Time(fast), phase.parallelization_factor),
                             720 * Time(slow))

\* C28: with non-negative execution times and a positive budget each input
\* test is selected at most once and no unselected test could be added
\* without the selected execution_time exceeding the budget; a test that
\* does not fit does not end the scan.
C28_SelectionIsMaximal ==
    (/\ Optimized
     /\ ret.time_budget > 0
     /\ \A i \in 1..Len(ret.priorities) :
            ret.priorities[i].test_case.execution_time >= 0)
        => LET list == ret.priorities
               places == SelectedPlaces(list, ret.selected)
           IN  /\ Len(ret.selected) = Cardinality(places)
               /\ \A k \in 1..Len(ret.selected) :
                      \E i \in 1..Len(list) : list[i] = ret.selected[k]
               /\ \A i \in 1..Len(list) :
                      i \notin places
                          => TotalTime(ret.selected)
                                 + list[i].test_case.execution_time
                                 > ret.time_budget

\* (0.9, 100) does not fit a budget of 15 and is skipped; (0.0, 5), taken
\* after it, is accepted.
C28_Witness ==
    /\ Optimized
    /\ ret.time_budget = 15
    /\ ret.priorities = <<Scored("t1", <<9, 100>>), Scored("t2", <<0, 5>>)>>
    /\ ret.selected = <<Scored("t2", <<0, 5>>)>>

---------------------------------------------------------------------------
(* Properties of prioritize_tests and its model branch *)

\* C12: with a time budget below the execution_time of every test of the
\* batch, prioritize_tests raises nothing and returns the empty list.
C12_InfeasibleBudgetSelectsNothing ==
    (/\ ret.op = "prioritize_tests"
     /\ request.time_budget.given
     /\ request.test_cases # << >>
     /\ \A i \in 1..Len(request.test_cases) :
            request.time_budget.seconds < request.test_cases[i].execution_time)
        => (~ret.raised /\ ret.priorities = << >>)

UnitInterval(signal) == signal \in 0..SignalUnit

\* C13: for a test with a field out of range no error is raised, and every
\* sub-signal and the final score lie in [0,1].
C13_OutOfRangeFieldsAreClamped ==
    (/\ ret.op = "prioritize_tests"
     /\ \E i \in 1..Len(request.test_cases) : ~InRange(request.test_cases[i]))
        => /\ ~ret.raised
           /\ \A i \in 1..Len(ret.signals) :
                  /\ UnitInterval(ret.signals[i].failure_score)
                  /\ UnitInterval(ret.signals[i].coverage_score)
                  /\ UnitInterval(ret.signals[i].time_score)
                  /\ UnitInterval(ret.signals[i].change_score)
                  /\ ret.signals[i].traditional_score \in 0..One
           /\ \A i \in 1..Len(ret.priorities) :
                  ret.priorities[i].priority_score \in 0..One

\* The inference of the active model raises for test i of the request.
InferenceRaises(i) ==
    /\ ModelActive(ret.env.trained, ret.env.model)
    /\ Predict(ret.env.model,
               _extract_ml_features(request.test_cases[i], request.recent_changes,
                                    ret.env.history, ret.env.now)).raised

C17_BlendOfHeuristicAndModel ==
    (Called /\ Len(request.test_cases) = 1) =>
        LET heuristic == ret.signals[1].traditional_score
            final == ret.priorities[1].priority_score
            outcome ==
                Predict(ret.env.model,
                        _extract_ml_features(request.test_cases[1],
                                             request.recent_changes,
                                             ret.env.history, ret.env.now))
            m == Max(0, Min(One, outcome.prediction))
        IN  /\ ~ModelActive(ret.env.trained, ret.env.model) => final = heuristic
            /\ (ModelActive(ret.env.trained, ret.env.model) /\ ~outcome.raised)
                   => 10 * final = 3 * heuristic + 7 * m

\* An active model predicting 0.5 for a test whose heuristic score differs.
C17_Witness ==
    /\ Called
    /\ ret.env.model = HistoryModel
    /\ ret.env.trained
    /\ ret.signals[1].traditional_score # One \div 2
    /\ 10 * ret.priorities[1].priority_score
           = 3 * ret.signals[1].traditional_score + 7 * (One \div 2)

---------------------------------------------------------------------------
(* Properties of construction (SpecConfig) *)

\* sum(config.weight_config.values()), in hundredths
WeightSum(cfg) ==
    cfg.weight_config.failure_history + cfg.weight_config.business_impact
        + cfg.weight_config.code_coverage + cfg.weight_config.execution_time
        + cfg.weight_config.code_changes

\* C18: constructing the engine with a configuration whose five weights do
\* not sum to 1 fails at construction, before any score is computed.
C18_BadWeightsFailConstruction ==
    (/\ ret.op \in {"__init__", "prioritize_tests"}
     /\ config # NoConfig
     /\ WeightSum(config) # 100)
        => (ret.op = "__init__" /\ ret.raised)

---------------------------------------------------------------------------
(* Frame of the history store (SpecFrame) *)

\* the names whose window differs between two stores
ChangedWindows(before, after) ==
    {name \in DOMAIN before \cup DOMAIN after :
        \/ (name \in DOMAIN before) # (name \in DOMAIN after)
        \/ WindowOf(before, name) # WindowOf(after, name)}

\* C19: update_performance_history(X, v) changes the window of X only, and
\* a step of prioritize_tests, generate_execution_plan or get_ml_metrics
\* leaves the store as it is, creating no window.
C19_HistoryFrame ==
    [][ /\ ChangedWindows(historical_performance, historical_performance')
               \subseteq ChangedWindows(recorded, recorded')
        /\ Cardinality(ChangedWindows(historical_performance,
                                      historical_performance')) <= 1
        /\ (ret' # ret \/ prev' # prev)
               => historical_performance' = historical_performance ]_vars

\* t1 has a window, t2 was scored and planned but never recorded: it has none.
C19_Witness ==
    /\ ret.op = "generate_execution_plan"
    /\ \E i \in 1..Len(ret.priorities) : ret.priorities[i].test_case.name = "t2"
    /\ DOMAIN historical_performance = {"t1"}
    /\ Len(historical_performance["t1"]) = 1

---------------------------------------------------------------------------
(* Properties of per-test scoring by workers (SpecWorkers) *)

Working == ret.op = "workers"

\* the entries prioritize_tests computes for a batch in one call on a day
SequentialEntries(test_cases, day) ==
    LET list == prioritize_tests(config, test_cases, request.recent_changes,
                                 NoBudget, ret.env.trained, ret.env.model,
                                 ret.env.history, day)
    IN  {list[k] : k \in 1..Len(list)}

Reverse(list) == [k \in 1..Len(list) |-> list[Len(list) + 1 - k]]

\* C20 as stated: what is computed for a test depends only on the test, the
\* changeset, the model and the history snapshot: two evaluations of one
\* test of the batch, by any workers in any order, give the same entry.
C20_ResultDependsOnTestAndSnapshot ==
    Working =>
        \A a, b \in Threads :
            \A i \in DOMAIN ret.results[a] \cap DOMAIN ret.results[b] :
                ret.results[a][i].priority = ret.results[b][i].priority

\* C20 amended: the same for two evaluations on the same day; each entry is
\* the one a sequential prioritize_tests call on the batch, in either
\* order, computes on that day; and the workers leave the history store,
\* the model and model_trained as they found them.
C20_ResultDependsOnTestSnapshotAndDay ==
    Working =>
        /\ \A a, b \in Threads :
               \A i \in DOMAIN ret.results[a] \cap DOMAIN ret.results[b] :
                   ret.results[a][i].day = ret.results[b][i].day
                       => ret.results[a][i].priority = ret.results[b][i].priority
        /\ \A a \in Threads :
               \A i \in DOMAIN ret.results[a] :
                   /\ ret.results[a][i].priority
                          \in SequentialEntries(request.test_cases,
                                                ret.results[a][i].day)
                   /\ ret.results[a][i].priority
                          \in SequentialEntries(Reverse(request.test_cases),
                                                ret.results[a][i].day)
        /\ historical_performance = ret.env.history
        /\ ml_model = ret.env.model
        /\ model_trained = ret.env.trained

\* Both workers have scored both tests of a batch with an active model and
\* a recorded observation: the first test on the same day, with the same
\* entry, the second on different days.
C20_Witness ==
    /\ Working
    /\ Len(request.test_cases) = 2
    /\ \A t \in Threads : DOMAIN ret.results[t] = {1, 2}
    /\ ModelActive(ret.env.trained, ret.env.model)
    /\ "t1" \in DOMAIN ret.env.history
    /\ ret.results["w1"][1].day = ret.results["w2"][1].day
    /\ ret.results["w1"][2].day # ret.results["w2"][2].day
    /\ ret.results["w1"][1].priority = ret.results["w2"][1].priority

---------------------------------------------------------------------------
(* Properties of the signal extractors (SpecScore) *)

\* C21: a test with failure_count = 0 has a failure signal of exactly 0.1,
\* whatever its last_failure and its other fields.
C21_NoFailuresGivesBaseline ==
    Called =>
        \A i \in 1..Len(request.test_cases) :
            request.test_cases[i].failure_count = 0
                => ret.signals[i].failure_score = SignalUnit \div 10

\* No recorded failures but a last_failure one day ahead of the clock.
C21_Witness ==
    /\ Called
    /\ request.test_cases[1].failure_count = 0
    /\ request.test_cases[1].last_failure = OnDay(1)
    /\ ret.signals[1].failure_score = SignalUnit \div 10

MaxTime == 360     \* longest execution_time compared, in seconds

\* The execution times up to MaxTime whose time signal the units represent.
TimeGrid == {t \in 0..MaxTime : Divides(60 + t, 60 * SignalUnit)}

\* C22: for 0 <= t1 <= t2 and all other fields equal, the time signal at t2
\* is at most the time signal at t1.
C22_TimeSignalNeverRises ==
    Called =>
        \A i \in 1..Len(request.test_cases) :
            \A t2 \in TimeGrid :
                (/\ 0 <= request.test_cases[i].execution_time
                 /\ request.test_cases[i].execution_time <= t2)
                    => TimeScore([request.test_cases[i]
                                      EXCEPT !.execution_time = t2])
                           <= ret.signals[i].time_score

\* 45 seconds against 360: 4/7 against 1/7.
C22_Witness ==
    /\ Called
    /\ request.test_cases[1].execution_time = 45
    /\ ret.signals[1].time_score = 4 * (SignalUnit \div 7)
    /\ TimeScore([request.test_cases[1] EXCEPT !.execution_time = 360])
           = SignalUnit \div 7

---------------------------------------------------------------------------
(* Properties of the change-impact signal (SpecChanges) *)

\* The number of places of a list that satisfy a test.
CountPlaces(list, Test(_)) == Cardinality({k \in 1..Len(list) : Test(list[k])})

\* The contributions of a changeset to a test, in tenths: 8 for the file
\* of the test, 3 for each dependency inside some entry, 2 for each entry
\* holding a critical keyword in any case.
Contributions(test_case, files) ==
    LET InSomeEntry(dependency) ==
            \E j \in 1..Len(files) : Contains(dependency, files[j])
        HoldsKeyword(entry) ==
            \E k \in 1..Len(critical_patterns) :
                Contains(critical_patterns[k], Lower(entry))
    IN  (IF \E j \in 1..Len(files) : files[j] = test_case.file_path
         THEN 8 ELSE 0)
        + 3 * CountPlaces(test_case.dependencies, InSomeEntry)
        + 2 * CountPlaces(files, HoldsKeyword)

\* C23: the change-impact signal is 0.1 when no changeset is supplied; with
\* a changeset it is min(1.0, 0.8 if file_path is in it + 0.3 for each
\* dependency that is a substring of some entry + 0.2 for each entry
\* containing auth, security, payment or database in any case).
C23_ChangeImpactFormula ==
    Called =>
        \A i \in 1..Len(request.test_cases) :
            ret.signals[i].change_score =
                IF ~request.recent_changes.given
                THEN SignalUnit \div 10
                ELSE Min(10, Contributions(request.test_cases[i],
                                           request.recent_changes.files))
                         * (SignalUnit \div 10)

\* C29 as stated: supplying any changeset gives a signal at least the
\* signal with no changeset, the baseline 0.1.
C29_ChangesetNeverBelowBaseline ==
    Called =>
        \A i \in 1..Len(request.test_cases) :
            ret.signals[i].change_score >=
                _calculate_change_impact_score(request.test_cases[i], << >>)

\* C29 amended: the signal is at least the baseline 0.1 unless the
\* changeset is non-empty and contributes nothing to the test, and then
\* it is 0.0.
C29_BaselineUnlessNothingMatches ==
    Called =>
        \A i \in 1..Len(request.test_cases) :
            LET files == OrEmpty(request.recent_changes)
            IN  IF files # << >> /\ Contributions(request.test_cases[i], files) = 0
                THEN ret.signals[i].change_score = 0
                ELSE ret.signals[i].change_score >= SignalUnit \div 10

\* The file of the test is the only entry of the changeset: 0.8.
C29_Witness ==
    /\ Called
    /\ request.test_cases[1].dependencies = << >>
    /\ request.recent_changes = Changes(<<test_ui_py>>)
    /\ request.test_cases[1].file_path = test_ui_py
    /\ ret.signals[1].change_score = 8 * (SignalUnit \div 10)

---------------------------------------------------------------------------
(* Properties of the frequency and the reasoning (SpecScore) *)

\* C24: the recommended frequency is a function of score and test type:
\* every commit from 0.8, else every build from 0.6, else daily from 0.4,
\* else every build for UNIT and weekly for any other type; so under the
\* default thresholds a CRITICAL test is every commit, a HIGH test every
\* build and a MEDIUM test daily.
C24_FrequencyByScoreAndType ==
    Called =>
        \A i \in 1..Len(ret.priorities) :
            LET p == ret.priorities[i]
                score == p.priority_score
                frequency == p.recommended_frequency
            IN  /\ frequency \in ExecutionFrequency
                /\ score >= Tenths(8) => frequency = "Every commit"
                /\ (score < Tenths(8) /\ score >= Tenths(6))
                       => frequency = "Every build"
                /\ (score < Tenths(6) /\ score >= Tenths(4))
                       => frequency = "Daily"
                /\ (score < Tenths(4) /\ p.test_case.test_type = "UNIT")
                       => frequency = "Every build"
                /\ (score < Tenths(4) /\ p.test_case.test_type # "UNIT")
                       => frequency = "Weekly"
                /\ p.risk_level = "CRITICAL" => frequency = "Every commit"
                /\ p.risk_level = "HIGH" => frequency = "Every build"
                /\ p.risk_level = "MEDIUM" => frequency = "Daily"

\* A UNIT test of LOW risk that is still recommended for every build.
C24_Witness ==
    /\ Called
    /\ ret.priorities[1].test_case.test_type = "UNIT"
    /\ ret.priorities[1].priority_score < Tenths(4)
    /\ ret.priorities[1].risk_level = "LOW"
    /\ ret.priorities[1].recommended_frequency = "Every build"

\* The explanations in their fixed order, the two urgency lines last.
Explanations ==
    << "High failure rate: {} recent failures",
       "High business impact: {}",
       "High code coverage: {}%",
       "Test file recently modified",
       "Critical test type: {}",
       "Fast execution time",
       "URGENT: Run immediately",
       "HIGH PRIORITY: Run in next cycle" >>

\* The trigger of the k-th explanation.
Triggered(k, test_case, score, recent_changes) ==
    CASE k = 1 -> test_case.failure_count > 5
      [] k = 2 -> test_case.business_impact \in {"CRITICAL", "HIGH"}
      [] k = 3 -> test_case.code_coverage > 80
      [] k = 4 -> \E j \in 1..Len(recent_changes.files) :
                      recent_changes.files[j] = test_case.file_path
      [] k = 5 -> test_case.test_type \in {"SECURITY", "API"}
      [] k = 6 -> test_case.execution_time < 30
      [] k = 7 -> score >= Tenths(8)
      [] k = 8 -> Tenths(6) <= score /\ score < Tenths(8)

\* C25: the reasoning list holds exactly the explanations whose trigger is
\* true, in the fixed order, followed by at most one urgency line: the
\* run-immediately line exactly when score >= 0.8, the next-cycle line
\* exactly when 0.6 <= score < 0.8.
C25_ReasoningIsTheTriggeredLines ==
    Called =>
        \A i \in 1..Len(ret.priorities) :
            LET p == ret.priorities[i]
                reasoning == p.reasoning
                Place(text) == {k \in 1..Len(Explanations) : Explanations[k] = text}
            IN  /\ \A k \in 1..Len(Explanations) :
                       Triggered(k, p.test_case, p.priority_score,
                                 request.recent_changes)
                           <=> \E j \in 1..Len(reasoning) :
                                   reasoning[j].text = Explanations[k]
                /\ \A j \in 1..Len(reasoning) : Place(reasoning[j].text) # {}
                /\ \A j1, j2 \in 1..Len(reasoning) :
                       j1 < j2 =>
                           \A k1 \in Place(reasoning[j1].text) :
                               \A k2 \in Place(reasoning[j2].text) : k1 < k2

\* Every trigger is true and the score is at least 0.8: seven lines, the
\* run-immediately line last.
C25_Witness ==
    /\ Called
    /\ Len(ret.priorities[1].reasoning) = 7
    /\ ret.priorities[1].reasoning[1].text = Explanations[1]
    /\ ret.priorities[1].reasoning[7].text = Explanations[7]
    /\ ret.priorities[1].priority_score >= Tenths(8)

---------------------------------------------------------------------------
(* Properties of the order of a budgeted list (SpecBatch) *)

\* C27: when a time budget is given, the list prioritize_tests returns is
\* in descending score order.
C27_BudgetedListInScoreOrder ==
    (Called /\ request.time_budget.given)
        => \A k \in 1..(Len(ret.priorities) - 1) :
               ret.priorities[k].priority_score
                   >= ret.priorities[k + 1].priority_score

---------------------------------------------------------------------------
(* Properties of the type weight (SpecScore) *)

\* C30: without a model and with the default configuration the score of a
\* test with in-range fields never exceeds the weight of its type; so a
\* UNIT test or a test of an unlisted type (0.5) is never HIGH or CRITICAL
\* and an INTEGRATION (0.7) or UI (0.6) test is never CRITICAL.
C30_ScoreWithinTypeWeight ==
    (Called /\ config = Config
            /\ ~ModelActive(ret.env.trained, ret.env.model))
        => \A i \in 1..Len(ret.priorities) :
               LET p == ret.priorities[i]
                   weight == IF p.test_case.test_type \in DOMAIN test_type_weights
                             THEN test_type_weights[p.test_case.test_type]
                             ELSE 5
               IN  InRange(p.test_case)
                       => /\ p.priority_score <= Tenths(weight)
                          /\ weight = 5 => p.risk_level \notin {"HIGH", "CRITICAL"}
                          /\ p.test_case.test_type \in {"INTEGRATION", "UI"}
                                 => p.risk_level # "CRITICAL"

====
